---- MODULE Spec2Model ----
(***************************************************************************)
(* Model of src/main.py: the name sanitizer, the review store lookup, the  *)
(* score aggregator and the four-chat pipeline started by main().          *)
(*                                                                         *)
(* Strings are sequences of one-character strings.  Four specifications    *)
(* share the variables: SpecSanitize, SpecFetch and SpecScore apply one    *)
(* function to inputs drawn in their initial states; Spec is the pipeline. *)
(***************************************************************************)
EXTENDS Integers, Sequences, FiniteSets, TLC

VARIABLES
    name, out1, out2, sanPc,                            \* sanitize(name), sanitize(sanitize(name))
    store, restaurant_name, lineNo, restaurant_data, fetchPc, fetchRet,
    food_scores, customer_service_scores, scorePc, scoreRet,
    pc, status, turns, chat_messages, seed, finished_chats, started,   \* the pipeline
    storeReads, readStages

sanVars   == <<name, out1, out2, sanPc>>
fetchVars == <<store, restaurant_name, lineNo, restaurant_data, fetchPc, fetchRet>>
scoreVars == <<food_scores, customer_service_scores, scorePc, scoreRet>>
pipeVars  == <<pc, status, turns, chat_messages, seed, finished_chats, started, storeReads, readStages>>
vars      == <<sanVars, fetchVars, scoreVars, pipeVars>>

\* an unbound local, a missing return value
None == <<>>

----------------------------------------------------------------------------
(* Bounds *)
MaxNameLen == 3
MaxStoreLen == 7            \* characters in the store file
MaxScores  == 2
MaxToolCalls == 2           \* tool calls carried by one reply
Scale      == 1000          \* fixed-point resolution standing for float precision

(* Characters.  "a", "A" and "9" stand for the letters and digits, " " and *)
(* the newline for whitespace, "." is the store's separator, "-" any other *)
(* character.  The store file holds upper-case names; the names looked up  *)
(* come in both cases.                                                     *)
Alphabet   == {"a", "A", "9", " ", "\n", ".", "-"}
StoreChars == {"A", " ", ".", "\n"}
NameChars  == {"a", "A", " "}

RECURSIVE SeqsUpTo(_, _)
SeqsUpTo(S, n) ==
    IF n = 0 THEN {<<>>}
    ELSE LET shorter == SeqsUpTo(S, n - 1)
         IN  shorter \cup {Append(s, c) : s \in {t \in shorter : Len(t) = n - 1}, c \in S}

----------------------------------------------------------------------------
(* sanitize, src/main.py:14-17 *)

IsSpace(c) == c \in {" ", "\n"}

\* SPACES.sub('', name): every whitespace run is replaced by the empty string
RemoveSpaces(s) == SelectSeq(s, LAMBDA c : ~IsSpace(c))

\* str.strip(): drop leading and trailing whitespace
RECURSIVE LStrip(_)
LStrip(s) == IF s # <<>> /\ IsSpace(Head(s)) THEN LStrip(Tail(s)) ELSE s

RECURSIVE RStrip(_)
RStrip(s) ==
    IF s # <<>> /\ IsSpace(s[Len(s)]) THEN RStrip(SubSeq(s, 1, Len(s) - 1)) ELSE s

Strip(s) == RStrip(LStrip(s))

\* str.lower()
LowerChar(c) == IF c = "A" THEN "a" ELSE c
Lower(s) == [i \in 1..Len(s) |-> LowerChar(s[i])]

\* the valid set widened to string.printable
PrintableChars == {"a", "A", "9", " ", "\n", ".", "-"}

\* set(string.ascii_lowercase + string.digits)
VALID_CODE_CHARS == {"a", "9"}

sanitize(s) ==
    Strip(SelectSeq(Lower(Strip(RemoveSpaces(s))), LAMBDA c : c \in VALID_CODE_CHARS))

SanInit ==
    /\ name \in SeqsUpTo(Alphabet, MaxNameLen)
    /\ out1 = None
    /\ out2 = None
    /\ sanPc = "idle"

SanitizeOnce ==
    /\ sanPc = "idle"
    /\ out1' = sanitize(name)
    /\ sanPc' = "once"
    /\ UNCHANGED <<name, out2, fetchVars, scoreVars, pipeVars>>

SanitizeTwice ==
    /\ sanPc = "once"
    /\ out2' = sanitize(out1)
    /\ sanPc' = "twice"
    /\ UNCHANGED <<name, out1, fetchVars, scoreVars, pipeVars>>

----------------------------------------------------------------------------
(* fetch_restaurant_data, src/main.py:20-33.  store is the text of          *)
(* restaurant-data.txt.                                                    *)

HasNewline(text) == \E i \in 1..Len(text) : text[i] = "\n"
FirstNewline(text) ==
    CHOOSE i \in 1..Len(text) : text[i] = "\n" /\ \A j \in 1..(i - 1) : text[j] # "\n"

\* for line in file: the lines of the text, each with its newline; the last
\* one may lack it
RECURSIVE FileLines(_)
FileLines(text) ==
    IF text = <<>> THEN <<>>
    ELSE IF ~HasNewline(text) THEN <<text>>
    ELSE <<SubSeq(text, 1, FirstNewline(text))>>
            \o FileLines(SubSeq(text, FirstNewline(text) + 1, Len(text)))

HasDot(line) == \E i \in 1..Len(line) : line[i] = "."
FirstDot(line) == CHOOSE i \in 1..Len(line) : line[i] = "." /\ \A j \in 1..(i - 1) : line[j] # "."

\* str.partition in place of split: a line without '.' yields an empty second field
Split1Partition(line) ==
    IF HasDot(line)
    THEN <<SubSeq(line, 1, FirstDot(line) - 1), SubSeq(line, FirstDot(line) + 1, Len(line))>>
    ELSE <<line, <<>>>>

\* line.split('.', 1): one field when the line has no '.', else the text
\* before the first '.' and everything after it
Split1(line) ==
    IF HasDot(line)
    THEN <<SubSeq(line, 1, FirstDot(line) - 1), SubSeq(line, FirstDot(line) + 1, Len(line))>>
    ELSE <<line>>

FetchIdle ==
    /\ lineNo = 0
    /\ restaurant_data = None
    /\ fetchPc = "idle"
    /\ fetchRet = None

\* lines 24-26: the result mapping is keyed by the argument as given
FetchKeyMutant(arg) == sanitize(arg)
FetchKey(arg) == arg

FetchOpen ==
    /\ fetchPc = "idle"
    /\ restaurant_data' = (FetchKey(restaurant_name) :> <<>>)
    /\ lineNo' = 1
    /\ fetchPc' = "loop"
    /\ UNCHANGED <<store, restaurant_name, fetchRet, sanVars, scoreVars, pipeVars>>

\* lines 27-32, one iteration; the two-name unpacking of a one-field split
\* raises ValueError, which leaves the function without a return value
FetchLine ==
    /\ fetchPc = "loop"
    /\ lineNo <= Len(FileLines(store))
    /\ LET fields == Split1(FileLines(store)[lineNo]) IN
        IF Len(fields) # 2
        THEN /\ fetchPc' = "ValueError"
             /\ restaurant_data' = None
             /\ UNCHANGED lineNo
        ELSE LET restaurant == Strip(fields[1])
                 review     == Strip(fields[2])
                 key        == CHOOSE k \in DOMAIN restaurant_data : TRUE
             IN  /\ restaurant_data' =
                        IF sanitize(restaurant) = sanitize(restaurant_name)
                        THEN (key :> Append(restaurant_data[key], review))
                        ELSE restaurant_data
                 /\ lineNo' = lineNo + 1
                 /\ UNCHANGED fetchPc
    /\ UNCHANGED <<store, restaurant_name, fetchRet, sanVars, scoreVars, pipeVars>>

\* line 33
FetchReturn ==
    /\ fetchPc = "loop"
    /\ lineNo > Len(FileLines(store))
    /\ fetchRet' = restaurant_data
    /\ fetchPc' = "returned"
    /\ UNCHANGED <<store, restaurant_name, lineNo, restaurant_data, sanVars, scoreVars, pipeVars>>

----------------------------------------------------------------------------
(* calculate_overall_score, src/main.py:36-49                              *)
(*                                                                         *)
(* A float is a decimal fixed-point number.  sqrt results carry Scale,     *)
(* the reciprocal Scale^2 and their product Scale^3, so that every         *)
(* intermediate keeps about nine significant digits; each operation rounds *)
(* to nearest as IEEE arithmetic does.  The sum is kept in 1/10000.        *)

MaxScore == 5
ScoreVals == 1..MaxScore

Min(a, b) == IF a < b THEN a ELSE b

\* round-half-even quotient of non-negative n by positive d
RoundDiv(n, d) ==
    LET q == n \div d
        r == n % d
    IN  IF 2 * r > d \/ (2 * r = d /\ q % 2 = 1) THEN q + 1 ELSE q

RECURSIVE FloorSqrt(_, _, _)
FloorSqrt(n, lo, hi) ==
    IF lo >= hi THEN lo
    ELSE LET mid == (lo + hi + 1) \div 2
         IN  IF mid * mid <= n THEN FloorSqrt(n, mid, hi) ELSE FloorSqrt(n, lo, mid - 1)

\* math.sqrt(n) for an integer n, in units of 1/Scale
Sqrt(n) ==
    LET m == n * Scale * Scale
        r == FloorSqrt(m, 0, 12 * Scale)
    IN  IF m - r * r > r THEN r + 1 ELSE r

\* line 44
ScoreNFoodOnly(food, service) == Len(food)
ScoreN(food, service) == Min(Len(food), Len(service))

Ok(v) == [status |-> "ok", value |-> v]
Raise(e) == [status |-> e, value |-> 0]

\* 1 / x for x in units of 1/Scale, the result in units of 1/Scale^2
Recip(x) == IF x = 0 THEN Raise("ZeroDivisionError") ELSE Ok(RoundDiv(Scale * Scale * Scale, x))

\* the product of a 1/Scale and a 1/Scale^2 number, times 10, in units of 1/10000
MulTimes10(a, b) == RoundDiv(a * b, (Scale * Scale * Scale) \div 100000)

\* line 47, the right-hand side
ContributionUnaveraged(f, c, N) ==
    LET inv == Recip(Sqrt(125))
    IN  IF inv.status # "ok" THEN inv ELSE Ok(MulTimes10(Sqrt((f * f) * c), inv.value))
Contribution(f, c, N) ==
    LET inv == Recip(N * Sqrt(125))
    IN  IF inv.status # "ok" THEN inv ELSE Ok(MulTimes10(Sqrt((f * f) * c), inv.value))

\* lines 45-47: for i in range(N), indices being 0-based there and 1-based here
RECURSIVE Accumulate(_, _, _, _, _)
Accumulate(food, service, N, i, overall_score) ==
    IF i > N THEN Ok(overall_score)
    ELSE IF i > Len(food) \/ i > Len(service) THEN Raise("IndexError")
    ELSE LET t == Contribution(food[i], service[i], N)
         IN  IF t.status # "ok" THEN t
             ELSE Accumulate(food, service, N, i + 1, overall_score + t.value)

\* the normalising factor computed once, before the loop
calculate_overall_score_hoisted(rname, food, service) ==
    LET N == ScoreN(food, service)
        inv == Recip(N * Sqrt(125))
        total == IF inv.status # "ok" THEN inv ELSE Accumulate(food, service, N, 1, 0)
    IN  IF total.status # "ok" THEN [status |-> total.status, value |-> <<>>]
        ELSE Ok(rname :> RoundDiv(total.value, 100))

\* lines 42-49; the returned score is in hundredths: round(overall_score, 2)
calculate_overall_score(rname, food, service) ==
    LET N == ScoreN(food, service)
        total == Accumulate(food, service, N, 1, 0)
    IN  IF total.status # "ok" THEN [status |-> total.status, value |-> <<>>]
        ELSE Ok(rname :> RoundDiv(total.value, 100))

ScoreNames == {<<"a">>, <<"A", " ">>}

ScoreCall ==
    /\ scorePc = "idle"
    /\ scoreRet' = calculate_overall_score(restaurant_name, food_scores, customer_service_scores)
    /\ scorePc' = "returned"
    /\ UNCHANGED <<food_scores, customer_service_scores, sanVars, fetchVars, pipeVars>>

ScoreIdle ==
    /\ food_scores = <<>>
    /\ customer_service_scores = <<>>
    /\ scorePc = "idle"
    /\ scoreRet = [status |-> "pending", value |-> <<>>]

SanIdle ==
    /\ name = <<>>
    /\ out1 = None
    /\ out2 = None
    /\ sanPc = "idle"

----------------------------------------------------------------------------
(* main, src/main.py:103-168: entrypoint_agent.initiate_chats runs the     *)
(* four chats of the list one after the other.  Chat k is a loop of at     *)
(* most max_turns[k] turns; in a turn entrypoint_agent sends one message   *)
(* and the recipient answers it.  The first message of a chat is its fixed *)
(* text followed by the summaries of the chats finished so far; a later    *)
(* one is entrypoint_agent's reply to the recipient's answer, which is the *)
(* result of the tool calls when the answer asked for some.  A reply from  *)
(* the language model is any of the texts, or a call of a tool registered  *)
(* for that agent's model.                                                 *)

Stages == 1..4

\* lines 142, 149, 155, 162
Recipient == <<"data_fetch_agent", "review_analysis_agent", "scoring_agent", "entrypoint_agent">>

\* lines 143, 150, 156, 163
Message == <<"user_query. Once you have fetched all the reviews", "These are the reviews",
             "These are the reviews. Once you get the overall score", "What is the overall score">>

\* lines 144, 151, 157, 164
max_turns == <<2, 1, 4, 1>>

\* line 158; the other chats leave the agents' default, which max_turns undercuts
HasAutoReplyLimit(k) == k = 3
max_consecutive_auto_reply == 1

\* lines 121 and 136: register_for_llm
LLMToolsShared(agent) ==
    IF agent \in {"data_fetch_agent", "scoring_agent"} THEN {"fetch_restaurant_data", "calculate_overall_score"}
    ELSE {}
LLMTools(agent) ==
    IF agent = "data_fetch_agent" THEN {"fetch_restaurant_data"}
    ELSE IF agent = "scoring_agent" THEN {"calculate_overall_score"}
    ELSE {}

\* lines 111-112: register_for_execution on entrypoint_agent
ExecTools == {"fetch_restaurant_data", "calculate_overall_score"}

\* what a language model may answer
Texts == {"text", "TERMINATE"}

TextMsg(from, content) == [from |-> from, kind |-> "text", content |-> content, tool |-> "", calls |-> 0]
ToolCallMsg(from, tool, n) == [from |-> from, kind |-> "tool_calls", content |-> "", tool |-> tool, calls |-> n]
ToolResponseMsg(from, tool, n) ==
    [from |-> from, kind |-> "tool_response", content |-> "tool_result", tool |-> tool, calls |-> n]

Last(s) == s[Len(s)]

\* "summary_method": "last_msg", lines 146, 152, 159, 165
Summary(k) == IF chat_messages[k] = <<>> THEN "" ELSE Last(chat_messages[k]).content

IsTermination(m) == m.kind = "text" /\ m.content = "TERMINATE"

Terminated == {"TerminatedNormal", "TerminatedMaxTurns", "TerminatedByPolicy"}

\* line 140: the summaries handed to the next chat of the list
CarryoverLastOnly == IF finished_chats = <<>> THEN <<>> ELSE <<Last(finished_chats)>>
Carryover == finished_chats

\* lines 140-167: the list is run in order, a chat after the previous one returned
CanStartEarly(k) == pc[k] = "idle" /\ (IF k = 1 THEN TRUE ELSE pc[k - 1] # "idle")
CanStart(k) == pc[k] = "idle" /\ Len(finished_chats) = k - 1

\* the range(max_turns) loop of a chat is exhausted
TurnsExhaustedLate(k) == turns[k] > max_turns[k]
TurnsExhausted(k) == turns[k] >= max_turns[k]

PipeInit ==
    /\ pc = [k \in Stages |-> "idle"]
    /\ status = [k \in Stages |-> "Idle"]
    /\ turns = [k \in Stages |-> 0]
    /\ chat_messages = [k \in Stages |-> <<>>]
    /\ seed = [k \in Stages |-> [message |-> "", carryover |-> <<>>]]
    /\ finished_chats = <<>>
    /\ started = <<>>
    /\ storeReads = 0
    /\ readStages = {}

\* a chat of the list is started: clear_history, then the first message is built
StartChat(k) ==
    /\ CanStart(k)
    /\ pc' = [pc EXCEPT ![k] = "sender"]
    /\ status' = [status EXCEPT ![k] = "Active"]
    /\ seed' = [seed EXCEPT ![k] = [message |-> Message[k], carryover |-> Carryover]]
    /\ chat_messages' = [chat_messages EXCEPT ![k] = <<>>]
    /\ started' = Append(started, Recipient[k])
    /\ UNCHANGED <<turns, finished_chats, storeReads, readStages, sanVars, fetchVars, scoreVars>>

\* the chat returns: its summary is appended to the results
Finish(k, how) ==
    /\ pc' = [pc EXCEPT ![k] = "done"]
    /\ status' = [status EXCEPT ![k] = how]
    /\ finished_chats' = Append(finished_chats, Summary(k))
    /\ UNCHANGED <<turns, chat_messages, seed, started, storeReads, readStages>>
    /\ UNCHANGED <<sanVars, fetchVars, scoreVars>>

Send(k, m) ==
    /\ chat_messages' = [chat_messages EXCEPT ![k] = Append(@, m)]
    /\ turns' = [turns EXCEPT ![k] = @ + 1]
    /\ pc' = [pc EXCEPT ![k] = "recipient"]
    /\ UNCHANGED <<status, seed, finished_chats, started, sanVars, fetchVars, scoreVars>>

\* first turn: entrypoint_agent sends the chat's message with the carryover
SendInit(k) ==
    /\ pc[k] = "sender"
    /\ turns[k] = 0
    /\ ~TurnsExhausted(k)
    /\ Send(k, TextMsg("entrypoint_agent", "init"))
    /\ UNCHANGED <<storeReads, readStages>>

\* a later turn, the last message asking for tools: entrypoint_agent runs every
\* call and sends the results; fetch_restaurant_data opens the store once a call
SendToolResult(k) ==
    /\ pc[k] = "sender"
    /\ turns[k] > 0
    /\ ~TurnsExhausted(k)
    /\ chat_messages[k] # <<>>
    /\ LET m == Last(chat_messages[k]) IN
        /\ m.kind = "tool_calls"
        /\ m.tool \in ExecTools
        /\ Send(k, ToolResponseMsg("entrypoint_agent", m.tool, m.calls))
        /\ IF m.tool = "fetch_restaurant_data"
           THEN /\ storeReads' = storeReads + m.calls
                /\ readStages' = readStages \cup {k}
           ELSE UNCHANGED <<storeReads, readStages>>

\* a later turn, the last message being text: entrypoint_agent's model answers
\* (no tool is registered for it)
SendReply(k) ==
    /\ pc[k] = "sender"
    /\ turns[k] > 0
    /\ ~TurnsExhausted(k)
    /\ chat_messages[k] # <<>>
    /\ Last(chat_messages[k]).kind = "text"
    /\ ~IsTermination(Last(chat_messages[k]))
    /\ \E t \in Texts : Send(k, TextMsg("entrypoint_agent", t))
    /\ UNCHANGED <<storeReads, readStages>>

\* entrypoint_agent has no reply to a termination message: the loop breaks
StopNormal(k) ==
    /\ pc[k] = "sender"
    /\ turns[k] > 0
    /\ ~TurnsExhausted(k)
    /\ IsTermination(Last(chat_messages[k]))
    /\ Finish(k, "TerminatedNormal")

\* the chat carries max_consecutive_auto_reply and entrypoint_agent has given
\* that many automatic replies; whether the limit then ends the chat is
\* decided inside the agent library, so both outcomes are kept
StopByPolicy(k) ==
    /\ pc[k] = "sender"
    /\ HasAutoReplyLimit(k)
    /\ turns[k] - 1 >= max_consecutive_auto_reply
    /\ ~TurnsExhausted(k)
    /\ Finish(k, "TerminatedByPolicy")

\* the loop ran max_turns times
StopMaxTurns(k) ==
    /\ pc[k] = "sender"
    /\ TurnsExhausted(k)
    /\ Finish(k, "TerminatedMaxTurns")

\* the recipient answers the message it was sent: its model is asked, unless
\* the message is a termination message, to which there is no reply
RecipientReply(k) ==
    /\ pc[k] = "recipient"
    /\ LET m == Last(chat_messages[k]) IN
        \/ /\ IsTermination(m)
           /\ UNCHANGED chat_messages
        \/ /\ ~IsTermination(m)
           /\ \E r \in {TextMsg(Recipient[k], t) : t \in Texts}
                    \cup {ToolCallMsg(Recipient[k], tool, n) :
                             tool \in LLMTools(Recipient[k]), n \in 1..MaxToolCalls} :
                 chat_messages' = [chat_messages EXCEPT ![k] = Append(@, r)]
    /\ pc' = [pc EXCEPT ![k] = "sender"]
    /\ UNCHANGED <<status, turns, seed, finished_chats, started, storeReads, readStages>>
    /\ UNCHANGED <<sanVars, fetchVars, scoreVars>>

\* the review store of a pipeline run
PipeStore == <<"A", ".", "A", "\n">>

Init ==
    /\ SanIdle /\ ScoreIdle /\ FetchIdle
    /\ store = PipeStore
    /\ restaurant_name = <<>>
    /\ PipeInit

Next ==
    \/ \E k \in Stages : StartChat(k)
    \/ \E k \in Stages : SendInit(k)
    \/ \E k \in Stages : SendToolResult(k)
    \/ \E k \in Stages : SendReply(k)
    \/ \E k \in Stages : StopNormal(k)
    \/ \E k \in Stages : StopByPolicy(k)
    \/ \E k \in Stages : StopMaxTurns(k)
    \/ \E k \in Stages : RecipientReply(k)

Spec == Init /\ [][Next]_vars

\* the calls into the agents and the model return, so a run keeps stepping
FairSpec == Spec /\ WF_vars(Next)

----------------------------------------------------------------------------
(* Specifications of the three functions *)

SanitizeInit ==
    /\ SanInit /\ FetchIdle /\ ScoreIdle /\ PipeInit
    /\ store = <<>>
    /\ restaurant_name = <<>>

SanNext == SanitizeOnce \/ SanitizeTwice

SpecSanitize == SanitizeInit /\ [][SanNext]_vars

FetchInit ==
    /\ SanIdle /\ ScoreIdle /\ FetchIdle /\ PipeInit
    /\ store \in SeqsUpTo(StoreChars, MaxStoreLen)
    /\ restaurant_name \in SeqsUpTo(NameChars, 1)

FetchNext == FetchOpen \/ FetchLine \/ FetchReturn

SpecFetch == FetchInit /\ [][FetchNext]_vars

ScoreInit ==
    /\ SanIdle /\ FetchIdle /\ PipeInit
    /\ store = <<>>
    /\ restaurant_name \in ScoreNames
    /\ food_scores \in SeqsUpTo(ScoreVals, MaxScores)
    /\ customer_service_scores \in SeqsUpTo(ScoreVals, MaxScores)
    /\ scorePc = "idle"
    /\ scoreRet = [status |-> "pending", value |-> <<>>]

ScoreNext == ScoreCall

SpecScore == ScoreInit /\ [][ScoreNext]_vars

----------------------------------------------------------------------------
(* Properties of the three functions *)

LowerAlnum == {"a", "9"}

\* C9: sanitize returns a string of characters in [a-z0-9] only, and applying
\* it to its own result returns that result unchanged.
C9_SanitizeIdempotent ==
    /\ sanPc \in {"once", "twice"} => \A i \in 1..Len(out1) : out1[i] \in LowerAlnum
    /\ sanPc = "twice" => out2 = out1

C9_Witness ==
    /\ sanPc = "twice"
    /\ out1 # <<>>
    /\ out1 # name
    /\ \E i \in 1..Len(name) : name[i] = "A"

StoreLines == FileLines(store)
Malformed(line) == ~HasDot(line)
NameField(line) == Split1(line)[1]
ReviewField(line) == Split1(line)[2]
Matches(line, arg) == sanitize(NameField(line)) = sanitize(arg)

\* the trimmed review texts of the matching lines among the first n, in file order
RECURSIVE MatchingReviews(_, _, _)
MatchingReviews(lines, arg, n) ==
    IF n = 0 THEN <<>>
    ELSE LET before == MatchingReviews(lines, arg, n - 1)
         IN  IF Matches(lines[n], arg) THEN Append(before, Strip(ReviewField(lines[n]))) ELSE before

\* C4: with no malformed line the lookup raises nothing and returns a mapping
\* whose only key is the argument as given and whose value lists the trimmed
\* reviews of the matching lines in file order (empty when none matches).
C4_FetchResult ==
    (\A i \in 1..Len(StoreLines) : ~Malformed(StoreLines[i])) =>
        /\ fetchPc # "ValueError"
        /\ fetchPc = "returned" =>
              /\ DOMAIN fetchRet = {restaurant_name}
              /\ fetchRet[restaurant_name] = MatchingReviews(StoreLines, restaurant_name, Len(StoreLines))

C4_Witness ==
    /\ fetchPc = "returned"
    /\ sanitize(restaurant_name) # restaurant_name
    /\ DOMAIN fetchRet = {restaurant_name}
    /\ Len(fetchRet[restaurant_name]) = 2
    /\ fetchRet[restaurant_name][1] # fetchRet[restaurant_name][2]
    /\ sanitize(restaurant_name) # <<>>

FirstMalformed ==
    CHOOSE i \in 1..Len(StoreLines) :
        Malformed(StoreLines[i]) /\ \A j \in 1..(i - 1) : ~Malformed(StoreLines[j])

\* C5: when some line has no '.', the lookup never returns a mapping: the loop
\* does not get past the first such line, and the error leaves no result.
C5_MalformedAborts ==
    (\E i \in 1..Len(StoreLines) : Malformed(StoreLines[i])) =>
        /\ fetchPc # "returned"
        /\ fetchRet = None
        /\ lineNo <= FirstMalformed
        /\ fetchPc = "ValueError" => restaurant_data = None /\ lineNo = FirstMalformed

C5_Witness ==
    /\ fetchPc = "ValueError"
    /\ lineNo = 2
    /\ Matches(StoreLines[1], restaurant_name)
    /\ sanitize(restaurant_name) # <<>>

\* C6: with an empty list the aggregator raises nothing and returns {name: 0}.
C6_EmptyIsZero ==
    scorePc = "returned" =>
        /\ scoreRet.status # "ZeroDivisionError"
        /\ (food_scores = <<>> \/ customer_service_scores = <<>>) =>
              scoreRet = Ok(restaurant_name :> 0)

C6_Witness ==
    /\ scorePc = "returned"
    /\ food_scores = <<>>
    /\ customer_service_scores # <<>>
    /\ scoreRet.status = "ok"

PairCount == Min(Len(food_scores), Len(customer_service_scores))

\* C7: the result is the one obtained from the two lists cut to their first
\* min(len, len) elements, and unmatched trailing elements raise nothing.
C7_TrailingIgnored ==
    scorePc = "returned" =>
        /\ scoreRet.status = "ok"
        /\ scoreRet = calculate_overall_score(restaurant_name,
                                              SubSeq(food_scores, 1, PairCount),
                                              SubSeq(customer_service_scores, 1, PairCount))

C7_Witness ==
    /\ scorePc = "returned"
    /\ PairCount >= 1
    /\ Len(food_scores) > PairCount
    /\ scoreRet.status = "ok"

\* C8: for scores in 1..5 the returned score lies in [0, 10] (0..1000
\* hundredths) and is 10.00 when every used pair is (5, 5).
C8_ScoreRange ==
    scorePc = "returned" /\ scoreRet.status = "ok" =>
        /\ scoreRet.value[restaurant_name] \in 0..1000
        /\ (/\ PairCount >= 1
            /\ \A i \in 1..PairCount : food_scores[i] = 5 /\ customer_service_scores[i] = 5)
           => scoreRet.value[restaurant_name] = 1000

C8_Witness ==
    /\ scorePc = "returned"
    /\ PairCount >= 2
    /\ \A i \in 1..PairCount : food_scores[i] = 5 /\ customer_service_scores[i] = 5
    /\ scoreRet.value[restaurant_name] = 1000

----------------------------------------------------------------------------
(* Properties of the pipeline *)

Began(k) == status[k] # "Idle"
Done(k) == status[k] \in Terminated

ChatOrder == <<"data_fetch_agent", "review_analysis_agent", "scoring_agent", "entrypoint_agent">>

\* C2: the chats start in the order data-fetch, review-analysis, scoring,
\* final-report; a chat has started only if the one before it has terminated
\* and its summary is recorded; at most one chat is Active and at most one
\* turn (a message sent and not yet answered) is in progress.
C2_StrictSequencing ==
    /\ started = SubSeq(ChatOrder, 1, Len(started))
    /\ \A k \in 2..4 : Began(k) => Done(k - 1) /\ Len(finished_chats) >= k - 1
    /\ Cardinality({k \in Stages : status[k] = "Active"}) <= 1
    /\ Cardinality({k \in Stages : pc[k] = "recipient"}) <= 1
    /\ \A k \in Stages : pc[k] \in {"sender", "recipient"} <=> status[k] = "Active"

C2_Witness ==
    /\ Done(1) /\ Done(2)
    /\ status[3] = "Active" /\ pc[3] = "recipient" /\ turns[3] = 3
    /\ status[4] = "Idle"

ToolResponses(k) == {i \in 1..Len(chat_messages[k]) : chat_messages[k][i].kind = "tool_response"}

====
